---------------------------- MODULE Spec2Model ----------------------------
(***************************************************************************)
(* State-machine model of tsl/data/data.py: StorageView (a key-filtered   *)
(* view over the shared store of a Data record) and Data (the record with  *)
(* its input/target views, per-key patterns and per-key transforms).       *)
(***************************************************************************)
EXTENDS Naturals, Sequences, FiniteSets, TLC

\* Attribute names a record can hold in this model.
Keys == {"x", "y"}

\* Number of distinct tensor values a caller can write.
NumValues == 2

Values == 1..NumValues

\* Largest number of keys a caller names in one keys(), values(), items() or
\* apply() call.
MaxArgs == 2

\* Names of attributes a record is given besides its input and target maps
\* (**kwargs of Data.__init__).
ExtraKeys == {"edge_index"}

\* Python's None, as the value of a mask that is not given.
None == 0

\* What the store holds under 'transform': the dict whose entries the
\* variable transform has.
TransformRef == "dict"

\* The two views every Data record owns (data.py:166, data.py:168).
Views == {"input", "target"}

VARIABLES
    store,      \* Data._store: the mapping shared by the record and its views
    __keys,     \* StorageView.__keys of each view: the recorded key tuple
    pattern,    \* Data.pattern: key -> pattern string (a sequence of characters)
    transform,  \* Data.transform: key -> scaler state
    snapshot,   \* the mapping a to_dict() call returned, as its caller holds it
    ret         \* the last operation, its arguments and what it returned or raised

vars == <<store, __keys, pattern, transform, snapshot, ret>>

----------------------------------------------------------------------------
\* Sequences as Python tuples and lists.

Range(s) == {s[i] : i \in DOMAIN s}

InSeq(x, s) == \E i \in DOMAIN s : s[i] = x

\* Every ordering of the finite set S (the iteration orders of a Python set or
\* the insertion orders of a dict with these keys).
Orderings(S) == {s \in [1..Cardinality(S) -> S] : Range(s) = S}

\* The key sequences a dict's keys() can yield: no key twice, any order.
KeySeqs == UNION {Orderings(S) : S \in SUBSET Keys}

\* The argument tuples of a call that names up to MaxArgs keys; the empty
\* tuple is the call with no key argument.
ArgSeqs == UNION {[1..n -> Keys] : n \in 0..MaxArgs}

\* The k-th smallest element of the finite set of numbers S.
Nth(S, k) == CHOOSE a \in S : Cardinality({b \in S : b < a}) = k - 1

\* What a caller passes as the keys of a view: None, one key, or a sequence
\* of keys in which a key may occur more than once.
KeyArgs ==
    {<<"none">>} \cup {<<"key", k>> : k \in Keys}
                 \cup {<<"seq", s>> : s \in ArgSeqs}

\* The functions a caller hands to apply(): one that changes every value and
\* one that maps every value to the same one.
Funcs == {[x \in Values |-> (x % NumValues) + 1], [x \in Values |-> 1]}

\* The mapping m with key k bound to v, and with key k removed.
MapSet(m, k, v) == [j \in DOMAIN m \cup {k} |-> IF j = k THEN v ELSE m[j]]

MapDel(m, k) == [j \in DOMAIN m \ {k} |-> m[j]]

----------------------------------------------------------------------------
\* StorageView

\* __len__ as the length of the recorded tuple, unfiltered.
__len__recorded(v) == Len(__keys[v])

\* __getitem__ that looks the item up in the store without asking the view.
__getitem__unfiltered(v, item) ==
    IF item \in DOMAIN store
    THEN <<"ok", store[item]>>
    ELSE <<"KeyError", item>>

\* add_keys that appends the keys without removing the recorded ones first.
add_keys_always(v, keys) == {__keys[v] \o new : new \in Orderings(keys)}

\* del_keys that leaves the recorded tuple as it is.
del_keys_kept(v, keys) == __keys[v]

\* keys(*args) without the empty-selection guard: with no key left the base
\* view is built with no arguments and enumerates the whole store.
keys_unguarded(v, args) ==
    LET ks == IF Len(args) > 0
              THEN SelectSeq(args, LAMBDA arg :
                       InSeq(arg, __keys[v]) /\ arg \in DOMAIN store)
              ELSE SelectSeq(__keys[v], LAMBDA k : k \in DOMAIN store)
    IN  IF Len(ks) > 0
        THEN ks
        ELSE CHOOSE all \in Orderings(DOMAIN store) : TRUE

\* _filter_keys that hands the requested keys on without asking the view.
_filter_keys_unfiltered(v, args) ==
    IF Len(args) > 0
    THEN args
    ELSE SelectSeq(__keys[v], LAMBDA k : k \in DOMAIN store)

\* The assignment to _keys that records the given sequence as it is.
__setattr__raw(value) ==
    IF value[1] = "none"
    THEN << >>
    ELSE IF value[1] = "key" THEN <<value[2]>> ELSE value[2]

\* ensure_list: the list of the given keys, each once, in the order of their
\* first occurrence; a single key gives the list of that key.
ensure_list(value) ==
    IF value[1] = "key"
    THEN <<value[2]>>
    ELSE [n \in 1..Cardinality(Range(value[2])) |->
             value[2][Nth({i \in DOMAIN value[2] :
                             \A j \in 1..(i - 1) : value[2][j] # value[2][i]},
                          n)]]

\* __setattr__('_keys', value): the tuple that becomes the recorded keys.
__setattr__(value) ==
    IF value[1] = "none"
    THEN << >>
    ELSE ensure_list(value)

\* StorageView.__init__(store, keys): the recorded keys of the new view.
__init__(keys) == __setattr__(keys)

\* The _keys property: the recorded keys that are present in the mapping.
_keys(v) == SelectSeq(__keys[v], LAMBDA k : k \in DOMAIN store)

\* __len__
__len__(v) == Len(_keys(v))

\* __getitem__: the store's value, or KeyError.
__getitem__(v, item) ==
    IF InSeq(item, _keys(v))
    THEN <<"ok", store[item]>>
    ELSE <<"KeyError", item>>

\* add_keys: the keys not yet recorded are appended, in the iteration order
\* of a set; the result is one of these tuples.
add_keys(v, keys) ==
    {__keys[v] \o new : new \in Orderings(keys \ Range(__keys[v]))}

\* del_keys
del_keys(v, keys) == SelectSeq(__keys[v], LAMBDA k : k \notin keys)

\* _filter_keys: args is the tuple of requested keys, empty for "all".
_filter_keys(v, args) ==
    IF Len(args) > 0
    THEN SelectSeq(args, LAMBDA arg : InSeq(arg, _keys(v)))
    ELSE _keys(v)

\* keys(*args): the base view over the mapping restricted to the filtered
\* keys, or the view of an empty dict.
keys(v, args) ==
    LET ks == _filter_keys(v, args)
    IN  IF Len(ks) > 0
        THEN SelectSeq(ks, LAMBDA k : k \in DOMAIN store)
        ELSE << >>

\* values(*args)
values(v, args) ==
    LET ks == _filter_keys(v, args)
    IN  IF Len(ks) > 0
        THEN LET live == SelectSeq(ks, LAMBDA k : k \in DOMAIN store)
             IN  [i \in DOMAIN live |-> store[live[i]]]
        ELSE << >>

\* items(*args)
items(v, args) ==
    LET ks == _filter_keys(v, args)
    IN  IF Len(ks) > 0
        THEN LET live == SelectSeq(ks, LAMBDA k : k \in DOMAIN store)
             IN  [i \in DOMAIN live |-> <<live[i], store[live[i]]>>]
        ELSE << >>

\* The base storage's apply(func, *ks): for each listed key in turn, the
\* mapping's current value is replaced by func of it.
RECURSIVE BaseApply(_, _, _)
BaseApply(m, func, ks) ==
    IF ks = << >>
    THEN m
    ELSE BaseApply(MapSet(m, Head(ks), func[m[Head(ks)]]), func, Tail(ks))

\* apply without the view's filter: func is applied to every requested key
\* the store holds, and to the whole store when no key is requested.
apply_unfiltered(v, func, args) ==
    IF Len(args) > 0
    THEN BaseApply(store, func, SelectSeq(args, LAMBDA k : k \in DOMAIN store))
    ELSE [k \in DOMAIN store |-> IF k \in Keys THEN func[store[k]] ELSE store[k]]

\* apply(func, *args): the store after the call; the base storage walks
\* self.items(*keys), which filters once more, and writes each result back
\* through the view.
apply(v, func, args) ==
    IF Len(_filter_keys(v, args)) > 0
    THEN BaseApply(store, func, keys(v, _filter_keys(v, args)))
    ELSE store

\* to_dict that hands out the mapping behind the view.
to_dict_mapping(v) == store

\* to_dict: a new dict of the effective keys with the store's values.
to_dict(v) == [k \in Range(_keys(v)) |-> store[k]]

\* No to_dict() result is held.
NoSnapshot == [view |-> "", map |-> << >>]

----------------------------------------------------------------------------
\* Operations on a view.

Ret(op, v, k, val, out) ==
    [op |-> op, view |-> v, key |-> k, val |-> val, out |-> out]

\* set through a view that binds the key in the view only, not in the store.
ViewSetItem_private(v, key, value) ==
    /\ \E ks \in add_keys(v, {key}) : __keys' = [__keys EXCEPT ![v] = ks]
    /\ ret' = [op |-> "set", view |-> v, key |-> key, val |-> value,
               out |-> <<"ok">>]
    /\ UNCHANGED <<store, pattern, transform, snapshot>>

\* set through a view whose recorded keys are one tuple shared by all views:
\* the key is added to every view's recorded keys.
ViewSetItem_shared_keys(v, key, value) ==
    /\ store' = MapSet(store, key, value)
    /\ \E ks \in add_keys(v, {key}) :
          __keys' = [b \in Views |->
                        IF b = v \/ InSeq(key, __keys[b])
                        THEN (IF b = v THEN ks ELSE __keys[b])
                        ELSE Append(__keys[b], key)]
    /\ ret' = [op |-> "set", view |-> v, key |-> key, val |-> value,
               out |-> <<"ok">>]
    /\ UNCHANGED <<pattern, transform, snapshot>>

ViewGetItem(v, item) ==
    /\ ret' = Ret("get", v, item, 0, __getitem__(v, item))
    /\ UNCHANGED <<store, __keys, pattern, transform, snapshot>>

\* view[key] = value, for a tensor value: the write goes to the shared store
\* and the key is added to the view's recorded keys.
ViewSetItem(v, key, value) ==
    /\ store' = MapSet(store, key, value)
    /\ \E ks \in add_keys(v, {key}) : __keys' = [__keys EXCEPT ![v] = ks]
    /\ ret' = Ret("set", v, key, value, <<"ok">>)
    /\ UNCHANGED <<pattern, transform, snapshot>>

ViewDelItem(v, key) ==
    /\ store' = MapDel(store, key)
    /\ __keys' = [__keys EXCEPT ![v] = del_keys(v, {key})]
    /\ ret' = Ret("delete", v, key, 0, <<"ok">>)
    /\ UNCHANGED <<pattern, transform, snapshot>>

ViewLen(v) ==
    /\ ret' = Ret("len", v, "", 0, <<"ok", __len__(v)>>)
    /\ UNCHANGED <<store, __keys, pattern, transform, snapshot>>

\* keys(*args), values(*args) and items(*args) of one selection.
ViewKeys(v, args) ==
    /\ ret' = Ret("keys", v, "", args,
                  <<"ok", keys(v, args), values(v, args), items(v, args)>>)
    /\ UNCHANGED <<store, __keys, pattern, transform, snapshot>>

\* view.apply(func, *args); the call returns the view.
ViewApply(v, func, args) ==
    /\ store' = apply(v, func, args)
    /\ ret' = Ret("apply", v, "", <<func, args>>, <<"ok", v>>)
    /\ UNCHANGED <<__keys, pattern, transform, snapshot>>

\* d = view.to_dict()
ViewToDict(v) ==
    /\ snapshot' = [view |-> v, map |-> to_dict(v)]
    /\ ret' = Ret("to_dict", v, "", 0, <<"ok", to_dict(v)>>)
    /\ UNCHANGED <<store, __keys, pattern, transform>>

\* d[key] = value on the dict a to_dict() call returned.
SnapshotSet(key, value) ==
    /\ snapshot.view # ""
    /\ snapshot' = [snapshot EXCEPT !.map = MapSet(snapshot.map, key, value)]
    /\ ret' = Ret("snapshot_set", snapshot.view, key, value, <<"ok">>)
    /\ UNCHANGED <<store, __keys, pattern, transform>>

\* del d[key] on the dict a to_dict() call returned.
SnapshotDel(key) ==
    /\ snapshot.view # ""
    /\ snapshot' = [snapshot EXCEPT !.map = MapDel(snapshot.map, key)]
    /\ ret' = Ret("snapshot_del", snapshot.view, key, 0,
                  IF key \in DOMAIN snapshot.map
                  THEN <<"ok">>
                  ELSE <<"KeyError", key>>)
    /\ UNCHANGED <<store, __keys, pattern, transform>>

ViewAddKeys(v, ks) ==
    /\ \E new \in add_keys(v, ks) : __keys' = [__keys EXCEPT ![v] = new]
    /\ ret' = Ret("add_keys", v, "", 0, <<"ok">>)
    /\ UNCHANGED <<store, pattern, transform, snapshot>>

ViewDelKeys(v, ks) ==
    /\ __keys' = [__keys EXCEPT ![v] = del_keys(v, ks)]
    /\ ret' = Ret("del_keys", v, "", 0, <<"ok">>)
    /\ UNCHANGED <<store, pattern, transform, snapshot>>

\* A write to the record's store that goes through no view (data[key] = value).
StoreSet(key, value) ==
    /\ store' = MapSet(store, key, value)
    /\ ret' = Ret("store_set", "", key, value, <<"ok">>)
    /\ UNCHANGED <<__keys, pattern, transform, snapshot>>

\* A removal from the record's store that goes through no view (del data[key]);
\* removing a key the store does not hold changes nothing.
StoreDel(key) ==
    /\ store' = MapDel(store, key)
    /\ ret' = Ret("store_del", "", key, 0, <<"ok">>)
    /\ UNCHANGED <<__keys, pattern, transform, snapshot>>

\* stores_as that copies the other record's recorded tuples.
stores_as_recorded(data) ==
    /\ __keys' = [v \in Views |-> __setattr__(<<"seq", data[v]>>)]
    /\ ret' = [op |-> "stores_as", view |-> "", key |-> "", val |-> data,
               out |-> <<"ok", data>>]
    /\ UNCHANGED <<store, pattern, transform, snapshot>>

\* stores_as(data): data is the other record, the recorded keys of its two
\* views and the key set of its store; each view of this record is assigned
\* the list of what the other record's view enumerates.  The other record
\* is only read: the call leaves it as it was.
stores_as(data) ==
    /\ __keys' = [v \in Views |->
                     __setattr__(<<"seq", SelectSeq(data[v],
                                            LAMBDA k : k \in data.store)>>)]
    /\ ret' = Ret("stores_as", "", "", data, <<"ok", data>>)
    /\ UNCHANGED <<store, pattern, transform, snapshot>>

----------------------------------------------------------------------------
\* Data

\* The base storage's item assignment, which attribute assignment on the
\* record comes down to: None removes the key, any other value is bound.
BaseSetItem(m, key, value) ==
    IF value = None THEN MapDel(m, key) ELSE MapSet(m, key, value)

\* data.key, reading an attribute of the record: the store's value.
__getattr__(key) ==
    IF key \in DOMAIN store
    THEN <<"ok", store[key]>>
    ELSE <<"AttributeError", key>>

\* has_transform that only asks whether the record has the attribute.
has_transform_attr == "transform" \in DOMAIN store

\* has_transform
has_transform ==
    "transform" \in DOMAIN store /\ Cardinality(DOMAIN transform) > 0

\* has_mask: get('mask') is the store's value, or None without one.
has_mask ==
    (IF "mask" \in DOMAIN store THEN store["mask"] ELSE None) # None

\* An optional mapping argument: None (the default), or a mapping.
Omitted == <<"none">>

Mapping(m) == <<"map", m>>

\* The arguments of a Data.__init__ call.
InitArgs(inp, tgt, mask, tr, pat, extra, vals) ==
    [input |-> inp, target |-> tgt, mask |-> mask, transform |-> tr,
     pattern |-> pat, extra |-> extra, vals |-> vals]

\* Data.__init__ that builds the target view over the input map's keys.
DataInit_target_over_input(inp, tgt, mask, tr, pat, extra, vals) ==
    /\ store = MapSet(BaseSetItem(vals, "mask", mask),
                      "transform", TransformRef)
    /\ __keys = [v \in Views |-> __init__(<<"seq", inp>>)]
    /\ transform = IF tr = Omitted THEN << >> ELSE tr[2]
    /\ pattern = IF pat = Omitted THEN << >> ELSE pat[2]
    /\ snapshot = NoSnapshot
    /\ ret = [op |-> "init", view |-> "", key |-> "",
              val |-> InitArgs(inp, tgt, mask, tr, pat, extra, vals),
              out |-> <<"ok">>]

\* Data.__init__: inp and tgt are the keys of the input and target maps in
\* their order, extra the names of the further attributes and vals the value
\* given for each of these keys; the maps and the further attributes share
\* no key (they are passed on as keyword arguments).  The store receives
\* the values, then the mask, then the transform dict (never None); each view records the
\* keys of its map; the pattern dict is kept beside the store.
DataInit(inp, tgt, mask, tr, pat, extra, vals) ==
    /\ store = MapSet(BaseSetItem(vals, "mask", mask),
                      "transform", TransformRef)
    /\ __keys = [v \in Views |->
                    __init__(<<"seq", IF v = "input" THEN inp ELSE tgt>>)]
    /\ transform = IF tr = Omitted THEN << >> ELSE tr[2]
    /\ pattern = IF pat = Omitted THEN << >> ELSE pat[2]
    /\ snapshot = NoSnapshot
    /\ ret = Ret("init", "", "", InitArgs(inp, tgt, mask, tr, pat, extra, vals),
                 <<"ok">>)

\* The records a caller can pass to stores_as: any recorded keys of the two
\* views over any store.
Others == [input : KeySeqs, target : KeySeqs, store : SUBSET Keys]

\* A record constructed without mask, transform and pattern.
Init ==
    \E inp, tgt \in KeySeqs, extra \in SUBSET Keys :
        /\ Range(inp) \cap Range(tgt) = {}
        /\ Range(inp) \cap extra = {}
        /\ Range(tgt) \cap extra = {}
        /\ \E vals \in [Range(inp) \cup Range(tgt) \cup extra -> Values] :
              DataInit(inp, tgt, None, Omitted, Omitted, extra, vals)

Next ==
    \/ \E v \in Views, k \in Keys : ViewGetItem(v, k)
    \/ \E v \in Views, k \in Keys, val \in Values : ViewSetItem(v, k, val)
    \/ \E v \in Views, k \in Keys : ViewDelItem(v, k)
    \/ \E v \in Views : ViewLen(v)
    \/ \E v \in Views : ViewKeys(v, << >>)
    \/ \E v \in Views, ks \in SUBSET Keys : ViewAddKeys(v, ks)
    \/ \E v \in Views, ks \in SUBSET Keys : ViewDelKeys(v, ks)
    \/ \E k \in Keys, val \in Values : StoreSet(k, val)
    \/ \E k \in Keys : StoreDel(k)
    \/ \E data \in Others : stores_as(data)

Spec == Init /\ [][Next]_vars

\* keys(), values(), items() and apply() with any key arguments, together
\* with the operations that change which keys the store or a view holds.
SelectNext ==
    \/ \E v \in Views, k \in Keys, val \in Values : ViewSetItem(v, k, val)
    \/ \E v \in Views, k \in Keys : ViewDelItem(v, k)
    \/ \E v \in Views, ks \in SUBSET Keys : ViewAddKeys(v, ks)
    \/ \E v \in Views, ks \in SUBSET Keys : ViewDelKeys(v, ks)
    \/ \E k \in Keys, val \in Values : StoreSet(k, val)
    \/ \E k \in Keys : StoreDel(k)
    \/ \E v \in Views, args \in ArgSeqs : ViewKeys(v, args)
    \/ \E v \in Views, func \in Funcs, args \in ArgSeqs : ViewApply(v, func, args)

SpecSelect == Init /\ [][SelectNext]_vars

\* Two views constructed directly over a store, StorageView(store, keys), with
\* any keys argument, whether or not the store holds the keys.
ViewInit ==
    \E m \in UNION {[S -> Values] : S \in SUBSET Keys}, a, b \in KeyArgs :
        /\ store = m
        /\ __keys = [v \in Views |-> __init__(IF v = "input" THEN a ELSE b)]
        /\ pattern = << >>
        /\ transform = << >>
        /\ snapshot = NoSnapshot
        /\ ret = Ret("construct", "", "", [input |-> a, target |-> b], <<"ok">>)

SpecView == ViewInit /\ [][Next]_vars

\* to_dict() and the caller's changes to the dict it returned, together with
\* the operations that change which keys the store or a view holds.
SnapshotNext ==
    \/ \E v \in Views, k \in Keys, val \in Values : ViewSetItem(v, k, val)
    \/ \E v \in Views, k \in Keys : ViewDelItem(v, k)
    \/ \E v \in Views, ks \in SUBSET Keys : ViewAddKeys(v, ks)
    \/ \E v \in Views, ks \in SUBSET Keys : ViewDelKeys(v, ks)
    \/ \E k \in Keys, val \in Values : StoreSet(k, val)
    \/ \E k \in Keys : StoreDel(k)
    \/ \E v \in Views : ViewToDict(v)
    \/ \E k \in Keys, val \in Values : SnapshotSet(k, val)
    \/ \E k \in Keys : SnapshotDel(k)

SpecSnapshot == Init /\ [][SnapshotNext]_vars

----------------------------------------------------------------------------
\* Pattern strings.  A Python string is the sequence of its characters; an
\* axis name is a run of characters other than the space.

\* ' '.join(axes)
Join(axes) ==
    [i \in 1..(IF Len(axes) = 0 THEN 0 ELSE 2 * Len(axes) - 1) |->
        IF i % 2 = 1 THEN axes[(i + 1) \div 2] ELSE " "]

\* The positions at which the substring "->" starts in s.
ArrowAt(s) == {i \in 1..(Len(s) - 1) : s[i] = "-" /\ s[i + 1] = ">"}

\* '->' in s
HasArrow(s) == ArrowAt(s) # {}

\* s.split('->'): the pieces between the occurrences of "->", left to right.
split(s) ==
    [j \in 1..(Cardinality(ArrowAt(s)) + 1) |->
        SubSeq(s,
               IF j = 1 THEN 1 ELSE Nth(ArrowAt(s), j - 1) + 2,
               IF j = Cardinality(ArrowAt(s)) + 1
               THEN Len(s)
               ELSE Nth(ArrowAt(s), j) - 1)]

\* s.strip(): s without its leading and trailing spaces.
strip(s) ==
    LET solid == {i \in DOMAIN s : s[i] # " "}
    IN  IF solid = {}
        THEN << >>
        ELSE SubSeq(s, Nth(solid, 1), Nth(solid, Cardinality(solid)))

\* The positions at which an axis name starts in s: a character other than
\* the space, first in s or after a space.
NameStarts(s) ==
    {i \in DOMAIN s : s[i] # " " /\ (i = 1 \/ s[i - 1] = " ")}

\* The axis names of one side of a pattern: its maximal runs of non-space
\* characters, in order.
Axes(s) ==
    [j \in 1..Cardinality(NameStarts(s)) |->
        LET from == Nth(NameStarts(s), j)
            upto == CHOOSE e \in from..Len(s) :
                       /\ \A i \in from..e : s[i] # " "
                       /\ (e = Len(s) \/ s[e + 1] = " ")
        IN  SubSeq(s, from, upto)]

\* The position of axis name a in the list of axis names l.
Pos(l, a) == CHOOSE i \in DOMAIN l : l[i] = a

----------------------------------------------------------------------------
\* Tensors.  A tensor is its shape and its elements in row-major order.

\* The number of elements of a tensor of this shape.
RECURSIVE Numel(_)
Numel(shape) == IF Len(shape) = 0 THEN 1 ELSE shape[1] * Numel(Tail(shape))

\* The index tuple (from 0 on each axis) of the element at row-major offset
\* off (from 0) in a tensor of this shape, and the offset of an index tuple.
Unravel(shape, off) ==
    [i \in DOMAIN shape |->
        (off \div Numel(SubSeq(shape, i + 1, Len(shape)))) % shape[i]]

RECURSIVE Ravel(_, _, _)
Ravel(shape, idx, n) ==
    IF n = 0 THEN 0 ELSE Ravel(shape, idx, n - 1) * shape[n] + idx[n]

\* A tensor of the given shape whose elements are all different.
Arange(shape) == [shape |-> shape, data |-> [o \in 1..Numel(shape) |-> o]]

\* The element of tensor value at index tuple idx.
At(value, idx) == value.data[Ravel(value.shape, idx, Len(value.shape)) + 1]

\* einops.rearrange(value, expr) for patterns of plain axis names: the axes
\* named on the left are those of the value, in order; the right names the
\* same axes in the order of the result.  Anything else is an EinopsError.
einops_rearrange(value, expr) ==
    LET parts == split(expr)
    IN  IF Len(parts) # 2
        THEN [err |-> "EinopsError"]
        ELSE
          LET left == Axes(parts[1])
              right == Axes(parts[2])
          IN  IF \/ Cardinality(Range(left)) # Len(left)
                 \/ Cardinality(Range(right)) # Len(right)
                 \/ Range(left) # Range(right)
                 \/ Len(left) # Len(value.shape)
              THEN [err |-> "EinopsError"]
              ELSE
                LET shape == [j \in DOMAIN right |->
                                 value.shape[Pos(left, right[j])]]
                IN  [err |-> "ok",
                     value |->
                       [shape |-> shape,
                        data |->
                          [o \in 1..Numel(shape) |->
                              LET idx == Unravel(shape, o - 1)
                              IN  At(value, [i \in DOMAIN left |->
                                                idx[Pos(right, left[i])]])]]]

\* Scaler.rearrange(end_pattern): the scaler with its axis bookkeeping
\* rewritten to end_pattern.
ScalerRearrange(scaler, end_pattern) == [scaler EXCEPT !.pattern = end_pattern]

----------------------------------------------------------------------------
\* Data.rearrange_key and Data.rearrange

\* The record's state as the rearrangement operations read and write it.
RecordState == [store |-> store, pattern |-> pattern, transform |-> transform]

\* The branch on '->' without the comparison of the explicit source with the
\* recorded pattern.
ParsePattern_unchecked(key_pattern, expr) ==
    IF HasArrow(expr)
    THEN LET parts == split(expr)
         IN  IF Len(parts) # 2
             THEN [err |-> "ValueError"]
             ELSE [err |-> "ok", end_pattern |-> strip(parts[2]),
                   pattern |-> expr]
    ELSE [err |-> "ok", end_pattern |-> expr,
          pattern |-> key_pattern \o <<" ", "-", ">", " ">> \o expr]

\* The branch on '->': the pattern handed to einops and the pattern to
\* record, or the error raised before anything is changed.
ParsePattern(key_pattern, expr) ==
    IF HasArrow(expr)
    THEN LET parts == split(expr)
         IN  IF Len(parts) # 2
             THEN [err |-> "ValueError"]
             ELSE LET start_pattern == strip(parts[1])
                      end_pattern == strip(parts[2])
                  IN  IF key_pattern # start_pattern
                      THEN [err |-> "RuntimeError"]
                      ELSE [err |-> "ok", end_pattern |-> end_pattern,
                            pattern |-> expr]
    ELSE [err |-> "ok", end_pattern |-> expr,
          pattern |-> key_pattern \o <<" ", "-", ">", " ">> \o expr]

\* The writes of rearrange_key without the update of the recorded pattern.
Commit_stale_pattern(st, key, value, end_pattern) ==
    [store |-> MapSet(st.store, key, value),
     pattern |-> st.pattern,
     transform |->
        IF key \in DOMAIN st.transform
        THEN MapSet(st.transform, key,
                    ScalerRearrange(st.transform[key], end_pattern))
        ELSE st.transform]

\* The writes that take the key's entry out of the pattern dict and do not
\* put the new pattern back.
Commit_pattern_popped(st, key, value, end_pattern) ==
    [store |-> MapSet(st.store, key, value),
     pattern |-> MapDel(st.pattern, key),
     transform |->
        IF key \in DOMAIN st.transform
        THEN MapSet(st.transform, key,
                    [st.transform[key] EXCEPT !.pattern = end_pattern])
        ELSE st.transform]

\* The three writes of rearrange_key, in the order of the code: the value,
\* the recorded pattern, the transform of the key if it has one.
Commit(st, key, value, end_pattern) ==
    [store |-> MapSet(st.store, key, value),
     pattern |-> MapSet(st.pattern, key, end_pattern),
     transform |->
        IF key \in DOMAIN st.transform
        THEN MapSet(st.transform, key,
                    ScalerRearrange(st.transform[key], end_pattern))
        ELSE st.transform]

\* rearrange_key that records the new pattern before it rearranges the value:
\* when the value rearrangement fails the pattern is already written.
rearrange_key_pattern_first(st, key, expr) ==
    IF key \notin DOMAIN st.pattern
    THEN [st |-> st, out |-> "KeyError"]
    ELSE
      LET parsed == ParsePattern(st.pattern[key], expr)
      IN  IF parsed.err # "ok"
          THEN [st |-> st, out |-> parsed.err]
          ELSE IF key \notin DOMAIN st.store
          THEN [st |-> st, out |-> "KeyError"]
          ELSE
            LET r == einops_rearrange(st.store[key], parsed.pattern)
            IN  IF r.err # "ok"
                THEN [st |-> [st EXCEPT !.pattern =
                                 MapSet(st.pattern, key, parsed.end_pattern)],
                      out |-> r.err]
                ELSE [st |-> Commit(st, key, r.value, parsed.end_pattern),
                      out |-> "ok"]

\* rearrange_key that reads a missing pattern as the empty string.
rearrange_key_default(st, key, expr) ==
    LET parsed == ParsePattern(IF key \in DOMAIN st.pattern
                               THEN st.pattern[key]
                               ELSE << >>, expr)
    IN  IF parsed.err # "ok"
        THEN [st |-> st, out |-> parsed.err]
        ELSE IF key \notin DOMAIN st.store
        THEN [st |-> st, out |-> "KeyError"]
        ELSE
          LET r == einops_rearrange(st.store[key], parsed.pattern)
          IN  IF r.err # "ok"
              THEN [st |-> st, out |-> r.err]
              ELSE [st |-> Commit(st, key, r.value, parsed.end_pattern),
                    out |-> "ok"]

\* rearrange_key(key, expr) from state st: the state it leaves and its outcome.
rearrange_key(st, key, expr) ==
    IF key \notin DOMAIN st.pattern
    THEN [st |-> st, out |-> "KeyError"]
    ELSE
      LET parsed == ParsePattern(st.pattern[key], expr)
      IN  IF parsed.err # "ok"
          THEN [st |-> st, out |-> parsed.err]
          ELSE IF key \notin DOMAIN st.store
          THEN [st |-> st, out |-> "KeyError"]
          ELSE
            LET r == einops_rearrange(st.store[key], parsed.pattern)
            IN  IF r.err # "ok"
                THEN [st |-> st, out |-> r.err]
                ELSE [st |-> Commit(st, key, r.value, parsed.end_pattern),
                      out |-> "ok"]

\* rearrange(patterns) that returns from inside the loop: only the first pair
\* is handled.
rearrange_first_only(st, pairs) ==
    IF Len(pairs) = 0
    THEN [st |-> st, out |-> "ok", done |-> 0]
    ELSE LET r == rearrange_key(st, pairs[1][1], pairs[1][2])
         IN  [st |-> r.st, out |-> r.out,
              done |-> IF r.out = "ok" THEN 1 ELSE 0]

\* rearrange(patterns): rearrange_key for each pair in order; the first error
\* ends the loop.  done counts the pairs that were rearranged.
RECURSIVE rearrange(_, _)
rearrange(st, pairs) ==
    IF Len(pairs) = 0
    THEN [st |-> st, out |-> "ok", done |-> 0]
    ELSE LET r == rearrange_key(st, pairs[1][1], pairs[1][2])
         IN  IF r.out # "ok"
             THEN [st |-> r.st, out |-> r.out, done |-> 0]
             ELSE LET rest == rearrange(r.st, Tail(pairs))
                  IN  [rest EXCEPT !.done = rest.done + 1]

RearrangeKey(key, expr) ==
    \E r \in {rearrange_key(RecordState, key, expr)} :
        /\ store' = r.st.store
        /\ pattern' = r.st.pattern
        /\ transform' = r.st.transform
        /\ ret' = Ret("rearrange_key", "", key, expr, <<r.out>>)
        /\ UNCHANGED <<__keys, snapshot>>

Rearrange(pairs) ==
    \E r \in {rearrange(RecordState, pairs)} :
        /\ store' = r.st.store
        /\ pattern' = r.st.pattern
        /\ transform' = r.st.transform
        /\ ret' = Ret("rearrange", "", "", pairs, <<r.out, r.done>>)
        /\ UNCHANGED <<__keys, snapshot>>

----------------------------------------------------------------------------
\* The records and calls of the rearrangement specification.

\* Axis names and lengths of the tensors: x is (t, n, c), y is (t, n).
AxisLen == [t |-> 2, n |-> 3, c |-> 4]

AxesOf == [x |-> <<"t", "n", "c">>, y |-> <<"t", "n">>]

ShapeOf(axes) == [i \in DOMAIN axes |-> AxisLen[axes[i]]]

\* The orders in which the axes of key can be written.
Perms(key) == Orderings(Range(AxesOf[key]))

\* The axes of key in reverse order.
Reversed(key) ==
    [i \in DOMAIN AxesOf[key] |-> AxesOf[key][Len(AxesOf[key]) + 1 - i]]

\* Destination-only expressions: every order of the axes; for x also one
\* written with a leading and one with a trailing space; and one that drops
\* an axis.
DstExprs(key) ==
    {Join(q) : q \in Perms(key)}
        \cup (IF key = "x"
              THEN {<<" ">> \o Join(Reversed(key)), Join(AxesOf[key]) \o <<" ">>}
              ELSE {})
        \cup {Join(Tail(AxesOf[key]))}

\* "src -> dst" expressions from every order of the axes to the order of
\* construction and to its reverse, and one with two arrows.
ArrowExprs(key) ==
    {Join(p) \o <<" ", "-", ">", " ">> \o Join(q) :
        p \in Perms(key), q \in {AxesOf[key], Reversed(key)}}
        \cup {Join(AxesOf[key]) \o <<"-", ">">> \o Join(AxesOf[key])
                  \o <<"-", ">">> \o Join(AxesOf[key])}

Exprs(key) == DstExprs(key) \cup ArrowExprs(key)

\* The expressions used in the pattern maps given to rearrange: the reverse
\* order as a destination, and the reverse order as the source of a full
\* expression.
BatchExprs(key) ==
    {Join(Reversed(key)),
     Join(Reversed(key)) \o <<" ", "-", ">", " ">> \o Join(AxesOf[key])}

\* The pattern maps given to rearrange: no key twice, in iteration order.
PatternMaps ==
    UNION {{[i \in DOMAIN ks |-> <<ks[i], es[i]>>] :
               es \in {f \in [DOMAIN ks -> UNION {BatchExprs(k) : k \in Keys}] :
                          \A i \in DOMAIN ks : f[i] \in BatchExprs(ks[i])}} :
           ks \in KeySeqs}

\* The pattern map that records the constructed axis order of the keys P,
\* and the transform map with a scaler for each key of T, which knows the
\* pattern of its key if the pattern map has one.
PatternOf(P) == [k \in P |-> Join(AxesOf[k])]

TransformOf(T, P) ==
    [k \in T |-> [pattern |-> IF k \in P THEN Join(AxesOf[k]) ELSE << >>]]

\* A record with the input tensor x and the target tensor y, constructed
\* with a pattern map and a transform map over any of the two keys.
RearrangeInit ==
    \E P \in SUBSET Keys, T \in SUBSET Keys :
        DataInit(<<"x">>, <<"y">>, None, Mapping(TransformOf(T, P)),
                 Mapping(PatternOf(P)), {},
                 [k \in Keys |-> Arange(ShapeOf(AxesOf[k]))])

RearrangeNext ==
    \/ \E k \in Keys : \E expr \in Exprs(k) : RearrangeKey(k, expr)
    \/ \E pairs \in PatternMaps : Rearrange(pairs)

SpecRearrange == RearrangeInit /\ [][RearrangeNext]_vars

----------------------------------------------------------------------------
\* The record's mask and transform attributes.

\* data.mask = mask
SetMask(mask) ==
    /\ store' = BaseSetItem(store, "mask", mask)
    /\ ret' = Ret("set_mask", "", "mask", mask, <<"ok">>)
    /\ UNCHANGED <<__keys, pattern, transform, snapshot>>

\* data.transform = tr: None removes the attribute (the variable transform
\* then has no entry), a mapping becomes the record's transform dict.
SetTransform(tr) ==
    /\ store' = IF tr = Omitted
                THEN MapDel(store, "transform")
                ELSE MapSet(store, "transform", TransformRef)
    /\ transform' = IF tr = Omitted THEN << >> ELSE tr[2]
    /\ ret' = Ret("set_transform", "", "transform", tr, <<"ok">>)
    /\ UNCHANGED <<__keys, pattern, snapshot>>

\* The mask arguments: None or a tensor value.
Masks == {None} \cup Values

\* The transform and pattern arguments: None, or a map over any of the keys.
TransformArgs ==
    {Omitted} \cup {Mapping(TransformOf(T, T)) : T \in SUBSET Keys}

PatternArgs == {Omitted} \cup {Mapping(PatternOf(P)) : P \in SUBSET Keys}

\* Any construction of a record: input and target maps over Keys, further
\* attributes, a mask or none, transform and pattern maps or none.
RecordInit ==
    \E inp, tgt \in KeySeqs, extra \in SUBSET (Keys \cup ExtraKeys) :
        /\ Range(inp) \cap Range(tgt) = {}
        /\ Range(inp) \cap extra = {}
        /\ Range(tgt) \cap extra = {}
        /\ \E vals \in [Range(inp) \cup Range(tgt) \cup extra -> Values],
              mask \in Masks, tr \in TransformArgs, pat \in PatternArgs :
              DataInit(inp, tgt, mask, tr, pat, extra, vals)

RecordNext ==
    \/ \E mask \in Masks : SetMask(mask)
    \/ \E tr \in TransformArgs : SetTransform(tr)

SpecRecord == RecordInit /\ [][RecordNext]_vars

----------------------------------------------------------------------------
\* Construction from maps that may share keys.

\* The keys that two of the three keyword sources of the base constructor
\* call (**input, **target, **kwargs) both give.
SharedKeys(inp, tgt, extra) ==
    (Range(inp) \cap Range(tgt)) \cup (Range(inp) \cap extra)
        \cup (Range(tgt) \cap extra)

\* The keyword arguments put together, a later source's value for a key
\* taking the place of an earlier one's.
Merged(inp, tgt, extra, ivals, tvals, evals) ==
    [k \in Range(inp) \cup Range(tgt) \cup extra |->
        IF k \in extra THEN evals[k]
        ELSE IF k \in Range(tgt) THEN tvals[k] ELSE ivals[k]]

\* The constructor raised: there is no record, no store and no view.
NoRecord ==
    /\ store = << >>
    /\ __keys = [v \in Views |-> << >>]
    /\ transform = << >>
    /\ pattern = << >>
    /\ snapshot = NoSnapshot

\* The last constructor call, if any, returned a record.
Constructed == ret.op = "init" => ret.out = <<"ok">>

\* Data.__init__ that merges the keyword sources instead of passing them
\* as keywords: a shared key takes the later source's value.
Construct_merged(inp, tgt, mask, tr, pat, extra, ivals, tvals, evals) ==
    DataInit(inp, tgt, mask, tr, pat, extra,
             Merged(inp, tgt, extra, ivals, tvals, evals))

\* Data.__init__ with the input map (keys inp, values ivals), the target
\* map (tgt, tvals) and the further attributes (extra, evals): the base
\* constructor call super().__init__(**input, **target, **kwargs) raises
\* TypeError when a key is given twice, before any view is built; otherwise
\* the construction goes on as DataInit.
Construct(inp, tgt, mask, tr, pat, extra, ivals, tvals, evals) ==
    IF SharedKeys(inp, tgt, extra) # {}
    THEN /\ NoRecord
         /\ ret = Ret("init", "", "",
                      InitArgs(inp, tgt, mask, tr, pat, extra,
                               Merged(inp, tgt, extra, ivals, tvals, evals)),
                      <<"TypeError">>)
    ELSE DataInit(inp, tgt, mask, tr, pat, extra,
                  Merged(inp, tgt, extra, ivals, tvals, evals))

\* Any constructor call over the keys, sharing keys or not.
ConstructInit ==
    \E inp, tgt \in KeySeqs, extra \in SUBSET (Keys \cup ExtraKeys) :
        \E ivals \in [Range(inp) -> Values], tvals \in [Range(tgt) -> Values],
           evals \in [extra -> Values] :
            Construct(inp, tgt, None, Omitted, Omitted, extra,
                      ivals, tvals, evals)

\* The operations on a constructed record that change the views' recorded
\* keys; a failed construction leaves nothing to operate on.
ConstructNext ==
    \/ Constructed /\ \E v \in Views, k \in Keys, val \in Values :
                         ViewSetItem(v, k, val)
    \/ Constructed /\ \E v \in Views, k \in Keys : ViewDelItem(v, k)
    \/ Constructed /\ \E v \in Views : ViewKeys(v, << >>)
    \/ Constructed /\ \E data \in Others : stores_as(data)

SpecConstruct == ConstructInit /\ [][ConstructNext]_vars

----------------------------------------------------------------------------
\* StorageView.numpy

\* The values a store holds here: a torch tensor <<"tensor", requires_grad,
\* device, data>>, or a numpy array <<"ndarray", FALSE, "cpu", data>>.
Tensors ==
    ({"tensor"} \X BOOLEAN \X {"cuda", "cpu"} \X Values)
        \cup ({"ndarray"} \X {FALSE} \X {"cpu"} \X Values)

\* lambda x: x.detach() under the base storage's apply: a tensor cut from
\* the autodiff graph; a value that is no tensor is left as it is.
detach ==
    [t \in Tensors |->
        IF t[1] = "tensor" THEN <<"tensor", FALSE, t[3], t[4]>> ELSE t]

\* lambda x: x.cpu(): a tensor in host memory; other values are left.
cpu ==
    [t \in Tensors |->
        IF t[1] = "tensor" THEN <<"tensor", t[2], "cpu", t[4]>> ELSE t]

\* lambda x: x.numpy(): the array of a detached tensor in host memory (the
\* call raises for any other tensor); a numpy array is left as it is.
to_numpy ==
    [t \in {u \in Tensors : u[1] = "tensor" => (~u[2] /\ u[3] = "cpu")} |->
        <<"ndarray", FALSE, "cpu", t[4]>>]

\* view.apply(func, *args) on the mapping m, which has the store's keys.
ApplyTo(m, v, func, args) ==
    IF Len(_filter_keys(v, args)) > 0
    THEN BaseApply(m, func, keys(v, _filter_keys(v, args)))
    ELSE m

\* numpy(*args): the store after self.detach().cpu(), two applies through
\* the view that name no key, and then apply(x.numpy(), *args).
numpy(v, args) ==
    ApplyTo(ApplyTo(ApplyTo(store, v, detach, << >>), v, cpu, << >>),
            v, to_numpy, args)

\* view.numpy(*args); the call returns what apply returns, the view.
ViewNumpy(v, args) ==
    /\ store' = numpy(v, args)
    /\ ret' = Ret("numpy", v, "", args, <<"ok", v>>)
    /\ UNCHANGED <<__keys, pattern, transform, snapshot>>

\* A record whose input and target maps hold tensors and arrays.
NumpyInit ==
    \E inp, tgt \in KeySeqs :
        /\ Range(inp) \cap Range(tgt) = {}
        /\ \E vals \in [Range(inp) \cup Range(tgt) -> Tensors] :
              DataInit(inp, tgt, None, Omitted, Omitted, {}, vals)

NumpyNext ==
    \/ \E v \in Views, args \in ArgSeqs : ViewNumpy(v, args)
    \/ \E v \in Views, k \in Keys, val \in Tensors : ViewSetItem(v, k, val)
    \/ \E v \in Views, ks \in SUBSET Keys : ViewAddKeys(v, ks)
    \/ \E k \in Keys : StoreDel(k)

SpecNumpy == NumpyInit /\ [][NumpyNext]_vars

----------------------------------------------------------------------------
\* Shared vocabulary of the properties below.

\* Number of entries of the tuple s that equal k.
Count(k, s) == Cardinality({i \in DOMAIN s : s[i] = k})

\* The effective key set of view v: recorded keys that the store holds.
Effective(v) == Range(__keys[v]) \cap DOMAIN store

\* The key k has the same presence and value in the store, and the same
\* membership in every view's recorded keys, before and after the step.
KeyUntouched(k) ==
    /\ (k \in DOMAIN store') = (k \in DOMAIN store)
    /\ k \in DOMAIN store => store'[k] = store[k]
    /\ \A b \in Views : InSeq(k, __keys'[b]) = InSeq(k, __keys[b])

----------------------------------------------------------------------------
\* Every view enumerates, through keys(), values() and items(), exactly its
\* recorded keys that the store holds, with the store's values.
C1_Enumeration ==
    \A v \in Views :
        LET ks == keys(v, << >>)
            vs == values(v, << >>)
            its == items(v, << >>)
        IN  /\ Range(ks) = Effective(v)
            /\ Len(vs) = Len(ks) /\ Len(its) = Len(ks)
            /\ \A i \in DOMAIN ks :
                  /\ vs[i] = store[ks[i]]
                  /\ its[i] = <<ks[i], store[ks[i]]>>

\* A store-level removal raises nothing, leaves every recorded tuple alone
\* and leaves the removed key out of every view's enumeration.
C1_StoreRemoval ==
    \A k \in Keys :
        StoreDel(k) =>
            /\ ret'.out = <<"ok">>
            /\ \A v \in Views :
                  /\ ~InSeq(k, keys(v, << >>)')
                  /\ __keys'[v] = __keys[v]

\* C1: in every reachable state the keys a view enumerates (keys(), and the
\* keys behind values() and items()) are exactly its recorded keys that are
\* present in the store; and a store-level removal outside the view makes
\* the key disappear from every view's enumeration, without an error, while
\* the view's recorded tuple still names it.
C1_EffectiveKeys == []C1_Enumeration /\ [][C1_StoreRemoval]_vars

\* C1 witness: a key was removed from the store outside the views, a view
\* still records it, and that view's enumeration skips it.
C1_Witness ==
    /\ ret.op = "store_del"
    /\ \E v \in Views :
          /\ InSeq(ret.key, __keys[v])
          /\ ret.key \notin DOMAIN store
          /\ ~InSeq(ret.key, keys(v, << >>))
          /\ Len(keys(v, << >>)) > 0

----------------------------------------------------------------------------
\* C2: after A.set(k, val), reading k through any view B whose recorded keys
\* name k returns val, the value A.get(k) returns.
C2_WriteVisible ==
    [][\A a \in Views, k \in Keys, val \in Values :
          ViewSetItem(a, k, val) =>
              /\ __getitem__(a, k)' = <<"ok", val>>
              /\ \A b \in Views :
                    InSeq(k, __keys'[b]) => __getitem__(b, k)' = <<"ok", val>>
      ]_vars

\* C2 witness: a value was written through one view and the other view,
\* which names the key, reads it.
C2_Witness ==
    /\ ret.op = "set"
    /\ \E b \in Views \ {ret.view} :
          /\ InSeq(ret.key, __keys[b])
          /\ __getitem__(b, ret.key) = <<"ok", ret.val>>

----------------------------------------------------------------------------
\* C3: get(key) returns the store's current value exactly when key is in
\* the view's effective key set and otherwise raises KeyError; either way
\* the store and the view's recorded keys are unchanged.
C3_Get ==
    [][\A v \in Views, k \in Keys :
          ViewGetItem(v, k) =>
              /\ ret'.out = IF k \in Effective(v)
                            THEN <<"ok", store[k]>>
                            ELSE <<"KeyError", k>>
              /\ store' = store
              /\ __keys' = __keys
      ]_vars

\* C3 witness: get raised KeyError for a key the view records but the store
\* no longer holds, while the other key of the store is not in the view.
C3_Witness ==
    /\ ret.op = "get"
    /\ ret.out[1] = "KeyError"
    /\ InSeq(ret.key, __keys[ret.view])
    /\ ret.key \notin DOMAIN store
    /\ \E j \in DOMAIN store \cap Keys : ~InSeq(j, __keys[ret.view])

----------------------------------------------------------------------------
\* C4: delete(key) through a view removes key from the store and from that
\* view's recorded keys; every other view then fails get(key) with KeyError
\* and skips key when enumerating; no other key's value or view membership
\* changes.
C4_Delete ==
    [][\A v \in Views, k \in Keys :
          ViewDelItem(v, k) =>
              /\ k \notin DOMAIN store'
              /\ ~InSeq(k, __keys'[v])
              /\ \A b \in Views :
                    /\ __getitem__(b, k)' = <<"KeyError", k>>
                    /\ ~InSeq(k, keys(b, << >>)')
              /\ \A j \in Keys \ {k} : KeyUntouched(j)
      ]_vars

\* C4 witness: a key was deleted through one view while the other view
\* still records it, and another key stays in the store.
C4_Witness ==
    /\ ret.op = "delete"
    /\ ret.key \notin DOMAIN store
    /\ \E b \in Views \ {ret.view} : InSeq(ret.key, __keys[b])
    /\ DOMAIN store \cap Keys # {}

----------------------------------------------------------------------------
\* C9: A.set(k, val) appends k to A's recorded keys only when A does not
\* record it yet (no duplicate is added) and leaves every other view's
\* recorded keys as they were, so a view that does not name k still fails
\* get(k) with KeyError and does not enumerate k.
C9_KeySetIndependence ==
    [][\A a \in Views, k \in Keys, val \in Values :
          ViewSetItem(a, k, val) =>
              /\ __keys'[a] = IF InSeq(k, __keys[a])
                              THEN __keys[a]
                              ELSE Append(__keys[a], k)
              /\ Count(k, __keys'[a]) = 1
              /\ \A b \in Views \ {a} :
                    /\ __keys'[b] = __keys[b]
                    /\ ~InSeq(k, __keys[b]) =>
                          /\ __getitem__(b, k)' = <<"KeyError", k>>
                          /\ ~InSeq(k, keys(b, << >>)')
      ]_vars

\* C9 witness: a key was written through one view, is in the store, and the
\* other view, which has live keys of its own, does not name it.
C9_Witness ==
    /\ ret.op = "set"
    /\ ret.key \in DOMAIN store
    /\ \E b \in Views \ {ret.view} :
          /\ ~InSeq(ret.key, __keys[b])
          /\ Len(keys(b, << >>)) > 0
          /\ __getitem__(b, ret.key) = <<"KeyError", ret.key>>

----------------------------------------------------------------------------
\* C10 as stated: len() is the number of recorded keys, not filtered by
\* presence in the store, so a store-level removal outside the view leaves
\* len() unchanged.
C10_LenAsRecorded ==
    [][/\ \A v \in Views :
             ViewLen(v) => ret'.out = <<"ok", Len(__keys[v])>>
       /\ \A k \in Keys :
             StoreDel(k) => \A v \in Views : __len__(v)' = __len__(v)
      ]_vars

\* C10 amended: len() is the number of recorded keys that are present in
\* the store, the length of what keys() enumerates; a store-level removal
\* outside the view of a key the view records lowers len() by the number of
\* times the view records it, and leaves the recorded tuple alone.
C10_LenIsEffective ==
    [][/\ \A v \in Views :
             ViewLen(v) =>
                 /\ ret'.out =
                      <<"ok", Cardinality({i \in DOMAIN __keys[v] :
                                              __keys[v][i] \in DOMAIN store})>>
                 /\ ret'.out[2] = Len(keys(v, << >>))
       /\ \A k \in Keys :
             StoreDel(k) =>
                 \A v \in Views :
                     /\ __len__(v)' + (IF k \in DOMAIN store
                                        THEN Count(k, __keys[v])
                                        ELSE 0) = __len__(v)
                     /\ Len(__keys'[v]) = Len(__keys[v])
      ]_vars

\* C10 witness: len() was taken of a view that records a key the store no
\* longer holds, and the result is smaller than the recorded tuple.
C10_Witness ==
    /\ ret.op = "len"
    /\ \E k \in Range(__keys[ret.view]) : k \notin DOMAIN store
    /\ ret.out[2] < Len(__keys[ret.view])
    /\ ret.out[2] > 0

----------------------------------------------------------------------------
\* Vocabulary of the rearrangement properties.

\* " -> "
Arrow == <<" ", "-", ">", " ">>

\* The value is the tensor key was constructed with, its axes in the order q:
\* the shape is the axis lengths in the order q, and the element at each
\* index tuple is the constructed tensor's element at the same named
\* coordinates.
InAxisOrder(value, key, q) ==
    /\ value.shape = ShapeOf(q)
    /\ Len(value.data) = Numel(ShapeOf(AxesOf[key]))
    /\ \A o \in DOMAIN value.data :
          \A idx \in {Unravel(ShapeOf(q), o - 1)} :
              \A named \in {[i \in DOMAIN q |-> idx[Pos(q, AxesOf[key][i])]]} :
                  value.data[o] =
                      1 + Ravel(ShapeOf(AxesOf[key]), named, Len(q))

\* The ways the axis order q is written as a destination in this model.
Written(q) == {Join(q), <<" ">> \o Join(q), Join(q) \o <<" ">>}

\* expr names q as its destination: alone, or after an explicit source.
HasDestination(expr, key, q) ==
    \/ expr \in Written(q)
    \/ \E p \in Perms(key) : expr = Join(p) \o Arrow \o Join(q)

\* Key k has, after the step, the value, pattern and transform it had before.
RecordKeyUntouched(k) ==
    /\ (k \in DOMAIN store') = (k \in DOMAIN store)
    /\ k \in DOMAIN store => store'[k] = store[k]
    /\ (k \in DOMAIN pattern') = (k \in DOMAIN pattern)
    /\ k \in DOMAIN pattern => pattern'[k] = pattern[k]
    /\ (k \in DOMAIN transform') = (k \in DOMAIN transform)
    /\ k \in DOMAIN transform => transform'[k] = transform[k]

\* Key k is, after the step, rearranged to the axis order q: value, recorded
\* pattern and, if it has one, transform.
RearrangedTo(k, q) ==
    /\ InAxisOrder(store'[k], k, q)
    /\ pattern'[k] \in Written(q)
    /\ (k \in DOMAIN transform') = (k \in DOMAIN transform)
    /\ k \in DOMAIN transform => transform'[k].pattern = pattern'[k]

----------------------------------------------------------------------------
\* C5: rearrange_key(key, "src -> dst") raises RuntimeError whenever the
\* explicit source src is not, as a string, the pattern recorded for key, and
\* the stored values, patterns and transforms are then all unchanged.
C5_PatternMismatch ==
    [][ret'.op = "rearrange_key" /\ ret'.key \in DOMAIN pattern =>
          \A p \in Perms(ret'.key), q \in Perms(ret'.key) :
              /\ ret'.val = Join(p) \o Arrow \o Join(q)
              /\ Join(p) # pattern[ret'.key]
              => /\ ret'.out = <<"RuntimeError">>
                 /\ store' = store
                 /\ pattern' = pattern
                 /\ transform' = transform
      ]_vars

\* C5 witness: a call with an explicit source raised RuntimeError on a key
\* that has a recorded pattern and a transform.
C5_Witness ==
    /\ ret.op = "rearrange_key"
    /\ ret.out = <<"RuntimeError">>
    /\ HasArrow(ret.val)
    /\ ret.key \in DOMAIN pattern
    /\ ret.key \in DOMAIN transform

----------------------------------------------------------------------------
\* C6: after a successful rearrange_key(key, expr) the stored value of key
\* has its axes in the order of the destination pattern, the recorded pattern
\* of key is the destination, the transform of key, if any, carries that same
\* pattern, and every other key keeps its value, pattern and transform.
C6_RearrangeKey ==
    [][ret'.op = "rearrange_key" /\ ret'.out = <<"ok">> =>
          \A k \in {ret'.key} : \A q \in Perms(k) :
              HasDestination(ret'.val, k, q)
              => /\ RearrangedTo(k, q)
                 /\ \A j \in Keys \ {k} : RecordKeyUntouched(j)
      ]_vars

\* C6 witness: x, constructed as "t n c" with shape (2, 3, 4) and with a
\* transform, has been rearranged by rearrange_key(x, "n t c"): its pattern
\* is "n t c" and its shape (3, 2, 4).
C6_Witness ==
    /\ ret.op = "rearrange_key"
    /\ ret.key = "x"
    /\ ret.val = Join(<<"n", "t", "c">>)
    /\ ret.out = <<"ok">>
    /\ pattern["x"] = Join(<<"n", "t", "c">>)
    /\ store["x"].shape = <<3, 2, 4>>
    /\ "x" \in DOMAIN transform
    /\ transform["x"].pattern = Join(<<"n", "t", "c">>)

----------------------------------------------------------------------------
\* The axis order that the expression of a pattern map names as destination.
BatchDestination(key, expr) ==
    CHOOSE q \in Perms(key) : HasDestination(expr, key, q)

\* C7: rearrange(pattern_map) handles the pairs in the mapping's order and is
\* not atomic: when the call for the i-th pair fails the error propagates,
\* the keys before the i-th are left rearranged (value, pattern, transform)
\* and the i-th and later keys keep their value and pattern; when no call
\* fails every key is rearranged.
C7_RearrangeNotAtomic ==
    [][ret'.op = "rearrange" =>
          \A pairs \in {ret'.val}, err \in {ret'.out[1]} :
            \A done \in {IF err = "ok" THEN Len(pairs) ELSE ret'.out[2]} :
              /\ done <= Len(pairs)
              /\ err # "ok" =>
                    /\ done < Len(pairs)
                    /\ rearrange_key(RecordState, pairs[done + 1][1],
                                     pairs[done + 1][2]).out = err
              /\ \A j \in 1..done :
                    \A q \in {BatchDestination(pairs[j][1], pairs[j][2])} :
                        RearrangedTo(pairs[j][1], q)
              /\ \A j \in (done + 1)..Len(pairs) :
                    RecordKeyUntouched(pairs[j][1])
              /\ \A k \in Keys \ {pairs[j][1] : j \in DOMAIN pairs} :
                    RecordKeyUntouched(k)
      ]_vars

\* C7 witness: a rearrange over two pairs raised RuntimeError at the second
\* pair, after the first key, which has a transform, was rearranged.
C7_Witness ==
    /\ ret.op = "rearrange"
    /\ Len(ret.val) = 2
    /\ ret.out = <<"RuntimeError", 1>>
    /\ ret.val[1][1] \in DOMAIN transform
    /\ pattern[ret.val[1][1]] = Join(Reversed(ret.val[1][1]))
    /\ pattern[ret.val[2][1]] = Join(AxesOf[ret.val[2][1]])

----------------------------------------------------------------------------
\* The round trip of key k from its recorded pattern to the axis order q and
\* back: both calls succeed and restore the recorded pattern and the value.
RoundTrip(k, q) ==
    \A p \in {pattern[k]} :
      \A r1 \in {rearrange_key(RecordState, k, p \o Arrow \o Join(q))} :
        \A r2 \in {rearrange_key(r1.st, k, Join(q) \o Arrow \o p)} :
            /\ r1.out = "ok"
            /\ r2.out = "ok"
            /\ r2.st.pattern[k] = p
            /\ r2.st.store[k] = store[k]

\* C8: for every key with a recorded pattern p and every order q of p's
\* axes, rearrange_key(key, "p -> q") followed by rearrange_key(key,
\* "q -> p") both succeed and restore the recorded pattern p and a value
\* equal, element by element, to the original.
C8_RoundTrip ==
    \A k \in DOMAIN pattern \cap DOMAIN store :
        \A q \in Perms(k) : RoundTrip(k, q)

\* C8 where the recorded pattern has no leading or trailing space: there the
\* round trip holds.
C8_RoundTripStripped ==
    \A k \in DOMAIN pattern \cap DOMAIN store :
        pattern[k] = strip(pattern[k]) => \A q \in Perms(k) : RoundTrip(k, q)

----------------------------------------------------------------------------
\* C11: keys(subset), values(subset) and items(subset) yield exactly the
\* entries whose key is both requested and in the view's effective key set,
\* with the store's values, and drop every other requested key without an
\* error; with no argument they yield the whole effective set; when no
\* requested key is effective they yield nothing, whatever the store holds.
\* The call changes neither the store nor the recorded keys.
C11_Selection ==
    [][ret'.op = "keys" =>
          \A v \in {ret'.view}, args \in {ret'.val} :
              \A sel \in {IF Len(args) = 0
                           THEN Effective(v)
                           ELSE Range(args) \cap Effective(v)} :
                  /\ ret'.out[1] = "ok"
                  /\ Range(ret'.out[2]) = sel
                  /\ Len(ret'.out[3]) = Len(ret'.out[2])
                  /\ Len(ret'.out[4]) = Len(ret'.out[2])
                  /\ \A i \in DOMAIN ret'.out[2] :
                        /\ ret'.out[3][i] = store[ret'.out[2][i]]
                        /\ ret'.out[4][i] =
                              <<ret'.out[2][i], store[ret'.out[2][i]]>>
                  /\ sel = {} =>
                        /\ ret'.out[2] = << >>
                        /\ ret'.out[3] = << >>
                        /\ ret'.out[4] = << >>
                  /\ store' = store
                  /\ __keys' = __keys
      ]_vars

\* C11 witness: keys were requested of which none is effective for the view,
\* one of them is held by the store, and nothing was enumerated.
C11_Witness ==
    /\ ret.op = "keys"
    /\ Len(ret.val) > 0
    /\ Range(ret.val) \cap Effective(ret.view) = {}
    /\ Range(ret.val) \cap DOMAIN store # {}
    /\ ret.out[2] = << >>
    /\ ret.out[4] = << >>

----------------------------------------------------------------------------
\* C12: apply(func, subset) replaces in the store the value of exactly the
\* keys that are both requested and effective for the view (every effective
\* key when none is requested) by func of the old value, leaves every other
\* value and the store's key set unchanged, and returns the view; when no
\* requested key is effective the store is unchanged and the view is
\* returned.  (A key named once in the call; the claim speaks of a subset.)
C12_Apply ==
    [][ret'.op = "apply" =>
          \A v \in {ret'.view}, func \in {ret'.val[1]}, args \in {ret'.val[2]} :
              \A sel \in {IF Len(args) = 0
                           THEN Effective(v)
                           ELSE Range(args) \cap Effective(v)} :
                  /\ DOMAIN store' = DOMAIN store
                  /\ \A k \in sel :
                        Count(k, args) <= 1 => store'[k] = func[store[k]]
                  /\ \A k \in DOMAIN store \ sel : store'[k] = store[k]
                  /\ sel = {} => store' = store
                  /\ ret'.out = <<"ok", v>>
      ]_vars

\* C12 witness: a value-changing function was applied through a view to a
\* requested key the view holds and to a requested key the store holds but
\* the view does not name.
C12_Witness ==
    /\ ret.op = "apply"
    /\ \A x \in Values : ret.val[1][x] # x
    /\ \E k, j \in Range(ret.val[2]) :
          /\ k \in Effective(ret.view)
          /\ j \in DOMAIN store
          /\ ~InSeq(j, __keys[ret.view])

----------------------------------------------------------------------------
----------------------------------------------------------------------------
\* C14 as stated: stores_as(other) makes the recorded key sets of this
\* record's views equal to the recorded key sets of the other record's
\* views, leaves this record's store and the other record alone, is a no-op
\* on what this record's views enumerate when the recorded key sets were
\* already equal, and otherwise makes the views enumerate the other's keys.
C14_StoresAsRecorded ==
    [][ret'.op = "stores_as" =>
          \A data \in {ret'.val} :
              /\ \A v \in Views : Range(__keys'[v]) = Range(data[v])
              /\ store' = store
              /\ ret'.out = <<"ok", data>>
              /\ IF \A v \in Views : Range(__keys[v]) = Range(data[v])
                 THEN \A v \in Views : keys(v, << >>)' = keys(v, << >>)
                 ELSE \A v \in Views : Range(keys(v, << >>)') = Range(data[v])
      ]_vars

\* C14 amended: stores_as(other) makes the recorded keys of each view of this
\* record the list of what the other record's view enumerates (the other's
\* recorded keys that the other's store holds), leaves this record's store
\* and the other record alone; afterwards each view enumerates those of the
\* copied keys that this record's store holds; and when the views already
\* enumerated what the other's views enumerate, they enumerate the same
\* after the call.
C14_StoresAs ==
    [][ret'.op = "stores_as" =>
          \A data \in {ret'.val} :
              \A enum \in {[v \in Views |->
                               SelectSeq(data[v], LAMBDA k : k \in data.store)]} :
                  /\ \A v \in Views : __keys'[v] = enum[v]
                  /\ store' = store
                  /\ ret'.out = <<"ok", data>>
                  /\ \A v \in Views :
                        keys(v, << >>)' =
                            SelectSeq(enum[v], LAMBDA k : k \in DOMAIN store)
                  /\ (\A v \in Views : keys(v, << >>) = enum[v]) =>
                        \A v \in Views : keys(v, << >>)' = keys(v, << >>)
      ]_vars

\* C14 witness: stores_as was called with a record whose input view records
\* a key its store does not hold; this record's store holds that key, and
\* this record's input view does not record it after the call.
C14_Witness ==
    /\ ret.op = "stores_as"
    /\ \E k \in Range(ret.val.input) :
          /\ k \notin ret.val.store
          /\ k \in DOMAIN store
          /\ ~InSeq(k, __keys["input"])
    /\ __keys["input"] # << >>

----------------------------------------------------------------------------
\* The keys a keys argument names.
Given(arg) ==
    IF arg[1] = "none"
    THEN {}
    ELSE IF arg[1] = "key" THEN {arg[2]} ELSE Range(arg[2])

----------------------------------------------------------------------------
\* In every state has_mask tells whether the store holds a mask (it never
\* holds a null one) and has_transform whether the transform mapping has an
\* entry; after construction has_mask tells whether a non-null mask was
\* given, and has_transform is false if no or an empty transform map was.
C16_FlagsInState ==
    /\ has_mask = ("mask" \in DOMAIN store)
    /\ "mask" \in DOMAIN store => store["mask"] # None
    /\ has_transform = (DOMAIN transform # {})
    /\ ret.op = "init" =>
          /\ has_mask = (ret.val.mask # None)
          /\ ret.val.transform \in {Omitted, Mapping(<< >>)} => ~has_transform

\* Assigning the mask makes has_mask true for a non-null and false for a
\* null mask, whatever it was before, and leaves has_transform as it was.
C16_MaskAssigned ==
    ret'.op = "set_mask" =>
        /\ has_mask' = (ret'.val # None)
        /\ has_transform' = has_transform

\* C16: in every reachable state of a record has_mask is true iff a non-null
\* mask is present and has_transform is true iff the transform mapping is
\* non-empty; has_mask is false after construction without a mask or with a
\* null mask, true after an assignment of a non-null mask and false again
\* after an assignment of a null mask; has_transform is false after
\* construction with no or an empty transform map.
C16_Flags == []C16_FlagsInState /\ [][C16_MaskAssigned]_vars

\* C16 witness: the mask of a record that has a transform was assigned null,
\* and the record has no mask and still has the transform.
C16_Witness ==
    /\ ret.op = "set_mask"
    /\ ret.val = None
    /\ ~has_mask
    /\ has_transform

----------------------------------------------------------------------------
\* Every key that has a transform has a recorded pattern.
TransformedHavePattern == DOMAIN transform \subseteq DOMAIN pattern

\* C17 as stated: in every reachable state of a record, constructed from any
\* transform map and pattern map and after any rearrange_key and rearrange
\* calls, every key that has a transform has a recorded pattern.
C17_TransformedHavePattern == TransformedHavePattern

\* C17 amended: construction takes the transform map and the pattern map as
\* given; rearrange_key and rearrange add and remove no entry of either, so
\* if every key that has a transform has a recorded pattern before a call,
\* it has one after it.
C17_Preserved ==
    [][/\ DOMAIN transform' = DOMAIN transform
       /\ DOMAIN pattern' = DOMAIN pattern
       /\ TransformedHavePattern => TransformedHavePattern'
      ]_vars

\* C17 witness: a key that has a transform and a pattern was rearranged.
C17_Witness ==
    /\ ret.op = "rearrange_key"
    /\ ret.out = <<"ok">>
    /\ ret.key \in DOMAIN transform
    /\ TransformedHavePattern
    /\ pattern[ret.key] # Join(AxesOf[ret.key])

----------------------------------------------------------------------------
----------------------------------------------------------------------------
\* C19: for a key whose recorded pattern is p, rearrange_key(key, dst) and
\* rearrange_key(key, p -> dst) have the same outcome and leave the record in
\* the same state (stored value, recorded pattern, transform pattern), for
\* every destination dst, one written with leading or trailing blanks
\* included.
C19_FormsEquivalent ==
    \A k \in DOMAIN pattern :
        \A dst \in DstExprs(k) :
            rearrange_key(RecordState, k, dst) =
                rearrange_key(RecordState, k, pattern[k] \o Arrow \o dst)

----------------------------------------------------------------------------
\* C20: rearrange_key on a key that has no recorded pattern raises KeyError
\* at the pattern lookup, whatever the expression is, and leaves the stored
\* values, the pattern mapping and the transform mapping unchanged; the key
\* has no pattern entry afterwards.
C20_NoPattern ==
    [][(ret'.op = "rearrange_key" /\ ret'.key \notin DOMAIN pattern) =>
          /\ ret'.out = <<"KeyError">>
          /\ store' = store
          /\ pattern' = pattern
          /\ transform' = transform
          /\ ret'.key \notin DOMAIN pattern'
      ]_vars

\* C20 witness: rearrange_key raised KeyError for a key that the store
\* holds and that has a transform but no recorded pattern, while the other
\* key has one.
C20_Witness ==
    /\ ret.op = "rearrange_key"
    /\ ret.out = <<"KeyError">>
    /\ ret.key \in DOMAIN store
    /\ ret.key \in DOMAIN transform
    /\ ret.key \notin DOMAIN pattern
    /\ DOMAIN pattern # {}

----------------------------------------------------------------------------
\* The recorded pattern of key k names the axes of k, each once, and the
\* stored value of k has its axes in that order.
Described(k) ==
    \A q \in {[j \in DOMAIN Axes(pattern[k]) |-> Axes(pattern[k])[j][1]]} :
        /\ q \in Perms(k)
        /\ InAxisOrder(store[k], k, q)

\* In every state the recorded pattern of every patterned key describes the
\* axis order of its stored value.
C21_Described == \A k \in DOMAIN pattern : Described(k)

\* A rearrange_key call that fails leaves values, patterns and transforms as
\* they were.
C21_FailureChangesNothing ==
    (ret'.op = "rearrange_key" /\ ret'.out # <<"ok">>) =>
        /\ store' = store
        /\ pattern' = pattern
        /\ transform' = transform

----------------------------------------------------------------------------
\* A removal of key k from the store outside a view (by the record, or
\* through another view) leaves the view's recorded keys naming k; a
\* removal through the view takes k out of its recorded keys only.
C22_Removal ==
    /\ ret'.op = "store_del" =>
          /\ ret'.key \notin DOMAIN store'
          /\ __keys' = __keys
    /\ ret'.op = "delete" =>
          /\ ret'.key \notin DOMAIN store'
          /\ ~InSeq(ret'.key, __keys'[ret'.view])
          /\ \A b \in Views \ {ret'.view} : __keys'[b] = __keys[b]

\* A write of key k outside view V (by the record, or through another view),
\* whether or not the store held k: if V's recorded keys name k, k is in
\* V's effective keys afterwards and V.get(k) returns the value written,
\* V's recorded keys being untouched; if they do not name k, k is not in
\* V's effective keys afterwards and V.get(k) raises KeyError.
C22_WriteBack ==
    ret'.op \in {"set", "store_set"} =>
        \A k \in {ret'.key}, val \in {ret'.val} :
            \A V \in Views \ {ret'.view} :
                /\ __keys'[V] = __keys[V]
                /\ IF InSeq(k, __keys[V])
                   THEN /\ k \in Effective(V)'
                        /\ __getitem__(V, k)' = <<"ok", val>>
                   ELSE /\ k \notin Effective(V)'
                        /\ __getitem__(V, k)' = <<"KeyError", k>>

\* C22: a key that a view records and that was removed from the store
\* outside the view is, once written back outside the view, again in the
\* view's effective keys and read through it with the new value, without
\* any add_keys on the view; a key removed through the view's own delete
\* is not brought back into that view by a later write outside it, but is
\* brought back into every other view that still records it.
C22_StaleKeysRevive == [][C22_Removal /\ C22_WriteBack]_vars

\* C22 witness: a key was written to the store by the record; the input
\* view, which records it, reads the value written, and the target view,
\* which does not record it, does not hold it.
C22_Witness ==
    /\ ret.op = "store_set"
    /\ InSeq(ret.key, __keys["input"])
    /\ ~InSeq(ret.key, __keys["target"])
    /\ __getitem__("input", ret.key) = <<"ok", ret.val>>
    /\ __getitem__("target", ret.key) = <<"KeyError", ret.key>>
    /\ __keys["target"] # << >>

----------------------------------------------------------------------------
\* A constructor call whose input map, target map and further attributes
\* share a key raises and leaves no record; a constructor call that
\* returned left the two views with disjoint recorded keys and disjoint
\* effective keys.
C23_ConstructChecked ==
    ret.op = "init" =>
        \A a \in {ret.val} :
            /\ SharedKeys(a.input, a.target, a.extra) # {} =>
                  /\ ret.out = <<"TypeError">>
                  /\ NoRecord
            /\ ret.out = <<"ok">> =>
                  /\ Range(__keys["input"]) \cap Range(__keys["target"]) = {}
                  /\ Effective("input") \cap Effective("target") = {}
                  /\ __keys["input"] = a.input
                  /\ __keys["target"] = a.target

\* A set through a view succeeds and records the key in that view whatever
\* the other view records, which it leaves alone; stores_as succeeds and
\* gives each view every key the other record's view enumerates, whether
\* or not the other record's views share it.
C23_NotRechecked ==
    /\ ret'.op = "set" =>
          /\ ret'.out = <<"ok">>
          /\ InSeq(ret'.key, __keys'[ret'.view])
          /\ \A b \in Views \ {ret'.view} : __keys'[b] = __keys[b]
    /\ ret'.op = "stores_as" =>
          /\ ret'.out[1] = "ok"
          /\ \A data \in {ret'.val} :
                \A v \in Views, k \in data.store :
                    InSeq(k, data[v]) => InSeq(k, __keys'[v])

\* C23: construction fails, creating no record, when the input map, the
\* target map and the further attributes share a key, so right after a
\* successful construction the two views' key sets are disjoint; later
\* set and stores_as calls do not check disjointness again.
C23_DisjointByConstruction ==
    []C23_ConstructChecked /\ [][C23_NotRechecked]_vars

\* C23 witness: a constructor call whose input and target maps both give
\* key x raised TypeError, and there is no record.
C23_Witness ==
    /\ ret.op = "init"
    /\ "x" \in Range(ret.val.input) \cap Range(ret.val.target)
    /\ ret.out = <<"TypeError">>
    /\ NoRecord

----------------------------------------------------------------------------
\* The plain-array form of a stored value.
PlainArray(t) == <<"ndarray", FALSE, "cpu", t[4]>>

\* C24: numpy(subset) through a view replaces in the store the value of
\* exactly the keys that are both requested and effective for the view
\* (every effective key when none is requested) by its plain-array form,
\* leaves the stored value of every other key (the view's unrequested keys
\* and the keys outside the view) and the store's key set unchanged, and
\* returns the view.
C24_ToPlainArrays ==
    [][ret'.op = "numpy" =>
          \A v \in {ret'.view}, args \in {ret'.val} :
              \A sel \in {IF Len(args) = 0
                           THEN Effective(v)
                           ELSE Range(args) \cap Effective(v)} :
                  /\ DOMAIN store' = DOMAIN store
                  /\ \A k \in sel : store'[k] = PlainArray(store[k])
                  /\ \A k \in DOMAIN store \ sel : store'[k] = store[k]
                  /\ ret'.out = <<"ok", v>>
      ]_vars

=============================================================================
